---- MODULE Spec2Model ----
(***************************************************************************)
(* uosql: the client library (src/src/lib.rs) talking to a peer over one   *)
(* TCP byte stream, and the server's accept loop (src/src/main.rs) with    *)
(* its per-connection handlers.                                            *)
(*                                                                         *)
(* The wire is a sequence of bytes.  Values are laid out as bincode's      *)
(* rustc_serialize encoder lays them out: big-endian fixed-width integers, *)
(* an enum as its u32 variant index followed by the variant's fields, a    *)
(* String or Vec as a u64 length followed by the elements.                 *)
(***************************************************************************)
EXTENDS Integers, Sequences, FiniteSets, TLC

VARIABLES
    \* the client (src/src/lib.rs)
    sock,        \* the client's TcpStream: "none", "open" or "dropped"
    conn,        \* the Connection returned by connect: << c >>, or << >>
    rx,          \* bytes the peer sent that the client has not read yet
    tx,          \* bytes the client wrote to the socket, in order
    peerClosed,  \* the peer has closed its end of the stream
    log,         \* every read and write the client made on the socket
    last,        \* the last client call: its inputs, the peer's reply, its result
    nOps,        \* number of ping/quit/execute calls made so far
    live,        \* the client's position when it runs against a handler
    pres,        \* the parser (src/src/parse/parser.rs): the last query and its result
    \* the server (src/src/main.rs and the connection handler)
    incoming,    \* what listener.incoming() has yielded so far: "ok" or "err" each
    threads,     \* the handler threads spawned, each with the socket moved into it
    warned,      \* number of failed accepts logged
    hpc,         \* per accepted socket: the state of its handler
    hin,         \* per socket: bytes from the client the handler has not read yet
    hout,        \* per socket: bytes the handler wrote
    hclosed,     \* per socket: the client has closed its end
    hcred,       \* per socket: the Login under authorization
    hlog,        \* per socket: what the handler did, in order
    nSent        \* number of packets clients have sent to the server

cliVars == <<sock, conn, rx, tx, peerClosed, log, last, nOps, live, pres>>
srvVars == <<incoming, threads, warned, hpc, hin, hout, hclosed, hcred, hlog, nSent>>
vars == <<cliVars, srvVars>>

(***************************************************************************)
(* Bounds of the model.                                                    *)
(***************************************************************************)
MaxOps == 2
MaxIncoming == 2
MaxSent == 2

(***************************************************************************)
(* Program constants.                                                      *)
(***************************************************************************)
PROTOCOL_VERSION == 1
CtrlLimit == 1024
Infinite == 0 - 1
\* Any length of 2^24 or more: larger than every size limit and every buffer
\* of the model, so all such lengths behave alike.
Huge == 256 * 256 * 256

(***************************************************************************)
(* Integers on the wire.                                                   *)
(***************************************************************************)
Byte == 0 .. 255

U8(n) == << n % 256 >>
U16(n) == << (n \div 256) % 256, n % 256 >>
U32(n) == << (n \div 16777216) % 256, (n \div 65536) % 256,
             (n \div 256) % 256, n % 256 >>
U64(n) == << 0, 0, 0, 0 >> \o U32(n)

\* The value of a big-endian byte string, saturated at Huge.
BE(bs) ==
    LET n == Len(bs)
        low == [i \in 1 .. 3 |-> IF n - 3 + i >= 1 THEN bs[n - 3 + i] ELSE 0]
    IN  IF \E i \in 1 .. n - 3 : bs[i] # 0
        THEN Huge
        ELSE low[1] * 65536 + low[2] * 256 + low[3]

Drop(s, n) == SubSeq(s, n + 1, Len(s))
Take(s, n) == SubSeq(s, 1, n)

\* Strings are sequences of bytes; String::from_utf8 accepts the ASCII range
\* (the streams of this model hold ASCII bytes and 0xFF, which no UTF-8
\* sequence contains).
ValidUtf8(bs) == \A i \in 1 .. Len(bs) : bs[i] < 128

(***************************************************************************)
(* The packet tags, in declaration order (the variant index on the wire).  *)
(***************************************************************************)
PkgTypes == << "Greet", "Login", "Command", "Ok", "Error", "Response",
               "AccGranted", "AccDenied" >>
PkgType == { PkgTypes[i] : i \in 1 .. Len(PkgTypes) }
TagIdx(t) == (CHOOSE i \in 1 .. Len(PkgTypes) : PkgTypes[i] = t) - 1

(***************************************************************************)
(* Encoders (the bytes of a value).                                        *)
(***************************************************************************)
EncStr(s) == U64(Len(s)) \o s
EncTag(t) == U32(TagIdx(t))
EncGreeting(g) == U8(g.protocol_version) \o EncStr(g.message)
EncLogin(l) == EncStr(l.username) \o EncStr(l.password)
EncCommand(c) ==
    CASE c.kind = "Ping" -> U32(0)
      [] c.kind = "Quit" -> U32(1)
      [] c.kind = "Query" -> U32(2) \o EncStr(c.text)
EncErrMsg(e) == U16(e.code) \o EncStr(e.msg)

RECURSIVE EncStrs(_)
EncStrs(ss) == IF ss = << >> THEN << >> ELSE EncStr(Head(ss)) \o EncStrs(Tail(ss))
EncResultSet(rs) ==
    U64(Len(rs.data)) \o rs.data \o U64(Len(rs.columns)) \o EncStrs(rs.columns)

(***************************************************************************)
(* Decoders.  A decoder state is the unread bytes, whether the peer has    *)
(* closed the stream, and the bytes read so far by this decode_from call   *)
(* (checked against its SizeLimit).  A read returns                        *)
(*   st = "ok"    the value v, the bytes left and the count used,          *)
(*   st = "err"   a DecodingError (size limit, end of stream, bad value),  *)
(*   st = "block" the bytes are not there and the peer has not closed.     *)
(***************************************************************************)
NoVal == << >>
RdErr(buf) == [st |-> "err", v |-> NoVal, buf |-> buf, used |-> 0]
RdBlock(buf) == [st |-> "block", v |-> NoVal, buf |-> buf, used |-> 0]
RdOk(v, buf, used) == [st |-> "ok", v |-> v, buf |-> buf, used |-> used]

\* read_bytes(n) against the limit, then n bytes from the stream
rd_raw(buf, eof, used, lim, n) ==
    IF lim # Infinite /\ used + n > lim THEN RdErr(buf)
    ELSE IF Len(buf) >= n THEN RdOk(Take(buf, n), Drop(buf, n), used + n)
    ELSE IF eof THEN RdErr(<< >>)
    ELSE RdBlock(buf)

\* try!(r) followed by K: a failed read ends the decode, a good one goes on
Then(r, K(_)) == IF r.st # "ok" THEN r ELSE K(r)
\* let v = x; K
With(x, K(_)) == K(x)

rd_int(buf, eof, used, lim, width) ==
    Then(rd_raw(buf, eof, used, lim, width), LAMBDA r :
         RdOk(BE(r.v), r.buf, r.used))

rd_str(buf, eof, used, lim) ==
    Then(rd_int(buf, eof, used, lim, 8), LAMBDA l :
    Then(rd_raw(l.buf, eof, l.used, lim, l.v), LAMBDA b :
         IF ValidUtf8(b.v) THEN b ELSE RdErr(b.buf)))

RECURSIVE rd_strs(_, _, _, _, _, _)
rd_strs(buf, eof, used, lim, n, acc) ==
    IF n = 0 THEN RdOk(acc, buf, used)
    ELSE Then(rd_str(buf, eof, used, lim), LAMBDA s :
              rd_strs(s.buf, eof, s.used, lim, n - 1, Append(acc, s.v)))

DecTag(buf, eof, lim) ==
    Then(rd_int(buf, eof, 0, lim, 4), LAMBDA r :
         IF r.v >= Len(PkgTypes) THEN RdErr(r.buf)
         ELSE RdOk(PkgTypes[r.v + 1], r.buf, r.used))

DecGreeting(buf, eof, lim) ==
    Then(rd_int(buf, eof, 0, lim, 1), LAMBDA ver :
    Then(rd_str(ver.buf, eof, ver.used, lim), LAMBDA m :
         RdOk([protocol_version |-> ver.v, message |-> m.v], m.buf, m.used)))

DecLogin(buf, eof, lim) ==
    Then(rd_str(buf, eof, 0, lim), LAMBDA u :
    Then(rd_str(u.buf, eof, u.used, lim), LAMBDA p :
         RdOk([username |-> u.v, password |-> p.v], p.buf, p.used)))

DecCommand(buf, eof, lim) ==
    Then(rd_int(buf, eof, 0, lim, 4), LAMBDA k :
         IF k.v = 0 THEN RdOk([kind |-> "Ping", text |-> << >>], k.buf, k.used)
         ELSE IF k.v = 1 THEN RdOk([kind |-> "Quit", text |-> << >>], k.buf, k.used)
         ELSE IF k.v = 2
         THEN Then(rd_str(k.buf, eof, k.used, lim), LAMBDA q :
                   RdOk([kind |-> "Query", text |-> q.v], q.buf, q.used))
         ELSE RdErr(k.buf))

DecErrMsg(buf, eof, lim) ==
    Then(rd_int(buf, eof, 0, lim, 2), LAMBDA c :
    Then(rd_str(c.buf, eof, c.used, lim), LAMBDA m :
         RdOk([code |-> c.v, msg |-> m.v], m.buf, m.used)))

DecResultSet(buf, eof, lim) ==
    Then(rd_int(buf, eof, 0, lim, 8), LAMBDA n :
    Then(rd_raw(n.buf, eof, n.used, lim, n.v), LAMBDA d :
    Then(rd_int(d.buf, eof, d.used, lim, 8), LAMBDA k :
    Then(rd_strs(k.buf, eof, k.used, lim, k.v, << >>), LAMBDA cs :
         RdOk([data |-> d.v, columns |-> cs.v], cs.buf, cs.used)))))

\* decode_from(stream, limit) for a value of type ty
decode_from(ty, buf, eof, lim) ==
    CASE ty = "PkgType" -> DecTag(buf, eof, lim)
      [] ty = "Greeting" -> DecGreeting(buf, eof, lim)
      [] ty = "Login" -> DecLogin(buf, eof, lim)
      [] ty = "Command" -> DecCommand(buf, eof, lim)
      [] ty = "ClientErrMsg" -> DecErrMsg(buf, eof, lim)
      [] ty = "ResultSet" -> DecResultSet(buf, eof, lim)

\* encode_into(value, stream, Bounded(lim)): the size is checked before
\* anything is written; wfail is the socket refusing the write.
encode_into(bytes, lim, wfail) ==
    IF lim # Infinite /\ Len(bytes) > lim THEN [ok |-> FALSE, out |-> << >>]
    ELSE IF wfail THEN [ok |-> FALSE, out |-> << >>]
    ELSE [ok |-> TRUE, out |-> bytes]

(***************************************************************************)
(* What the client calls leave behind: the kind of the Result, the values  *)
(* it carries, the unread bytes, the bytes written and the events.         *)
(***************************************************************************)
ErrorKinds == { "AddrParse", "Io", "UnexpectedPkg", "Encode", "Decode",
                "Auth", "Server" }
NoMsg == [code |-> 0, msg |-> << >>]
NoData == [columns |-> << >>, rows |-> << >>]
NoGreeting == [protocol_version |-> 0, message |-> << >>]

RdEv(ty, r) ==
    [io |-> "rd", ty |-> ty, st |-> r.st,
     v |-> IF ty = "PkgType" /\ r.st = "ok" THEN r.v ELSE "-"]
WrEv(ty, v, w) ==
    [io |-> "wr", ty |-> ty, st |-> IF w.ok THEN "ok" ELSE "err", v |-> v]

\* a DecodingError becomes Error::Decode (From<DecodingError>); a read that
\* never gets its bytes never returns
RdFail(r) == IF r.st = "block" THEN "Blocked" ELSE "Decode"

(***************************************************************************)
(* receive(s, cmd): match the received tag against the expected one.       *)
(***************************************************************************)
\* a receive that looks for a payload behind every unexpected tag
DrainType_eager(status) ==
    CASE status = "Response" -> "ResultSet"
      [] OTHER -> "Greeting"

\* the payload receive decodes and discards after an unexpected tag
DrainType(status) ==
    CASE status = "Ok" -> "none"
      [] status = "Response" -> "ResultSet"
      [] status = "Greet" -> "Greeting"
      [] OTHER -> "none"

RcvRes(res, msg, buf, ev) == [res |-> res, msg |-> msg, buf |-> buf, ev |-> ev]

\* receive without the early return on a tag that is not the expected one
receive_lenient(buf, eof, cmd) ==
    With(decode_from("PkgType", buf, eof, CtrlLimit), LAMBDA status :
    With(<< RdEv("PkgType", status) >>, LAMBDA e1 :
    IF status.st # "ok"
    THEN RcvRes(RdFail(status), NoMsg, status.buf, e1)
    ELSE IF status.v = "Error"
    THEN With(decode_from("ClientErrMsg", status.buf, eof, Infinite), LAMBDA err :
              IF err.st # "ok"
              THEN RcvRes(RdFail(err), NoMsg, err.buf,
                          e1 \o << RdEv("ClientErrMsg", err) >>)
              ELSE RcvRes("Server", err.v, err.buf,
                          e1 \o << RdEv("ClientErrMsg", err) >>))
    ELSE RcvRes("Ok", NoMsg, status.buf, e1)))

receive(buf, eof, cmd) ==
    With(decode_from("PkgType", buf, eof, CtrlLimit), LAMBDA status :
    With(<< RdEv("PkgType", status) >>, LAMBDA e1 :
    IF status.st # "ok"
    THEN RcvRes(RdFail(status), NoMsg, status.buf, e1)
    ELSE IF status.v = "Error"
    THEN With(decode_from("ClientErrMsg", status.buf, eof, Infinite), LAMBDA err :
              IF err.st # "ok"
              THEN RcvRes(RdFail(err), NoMsg, err.buf,
                          e1 \o << RdEv("ClientErrMsg", err) >>)
              ELSE RcvRes("Server", err.v, err.buf,
                          e1 \o << RdEv("ClientErrMsg", err) >>))
    ELSE IF status.v # cmd
    THEN IF DrainType(status.v) = "none"
         THEN RcvRes("UnexpectedPkg", NoMsg, status.buf, e1)
         ELSE With(decode_from(DrainType(status.v), status.buf, eof, Infinite),
                   LAMBDA d :
                   IF d.st # "ok"
                   THEN RcvRes(RdFail(d), NoMsg, d.buf,
                               e1 \o << RdEv(DrainType(status.v), d) >>)
                   ELSE RcvRes("UnexpectedPkg", NoMsg, d.buf,
                               e1 \o << RdEv(DrainType(status.v), d) >>))
    ELSE RcvRes("Ok", NoMsg, status.buf, e1)))

(***************************************************************************)
(* send_cmd(s, cmd, size): the Command tag, then the command.  wf is the   *)
(* write the socket refuses (0: none).                                     *)
(***************************************************************************)
send_cmd(cmd, size, wf) ==
    With(encode_into(EncTag("Command"), CtrlLimit, wf = 1), LAMBDA t :
    IF ~t.ok
    THEN [res |-> "Encode", out |-> << >>,
          ev |-> << WrEv("PkgType", "Command", t) >>]
    ELSE With(encode_into(EncCommand(cmd), size, wf = 2), LAMBDA c :
         [res |-> IF c.ok THEN "Ok" ELSE "Encode",
          out |-> t.out \o c.out,
          ev |-> << WrEv("PkgType", "Command", t), WrEv("Command", cmd.kind, c) >>]))

(***************************************************************************)
(* The peer.                                                               *)
(***************************************************************************)
\* What the peer sends at one point of the exchange: a tag (or no bytes at
\* all, or an index that is no tag), the bytes after it, and whether the
\* peer then closes the stream.
TagBytes(t) ==
    CASE t = "none" -> << >>
      [] t = "bad" -> U32(Len(PkgTypes) + 1)
      [] OTHER -> EncTag(t)
MkFeed(t, body, close) == [tag |-> t, body |-> body, close |-> close]
FeedBytes(f) == TagBytes(f.tag) \o f.body
NoFeed == MkFeed("none", << >>, FALSE)

(***************************************************************************)
(* Connection::connect.  The peer's bytes arrive in two parts: f1 when the *)
(* TCP connection is accepted, f2 after the client has written its Login.  *)
(* connect returns [res, conn, ...]: conn is << c >> for Ok(c), << >> for  *)
(* every Err; fed counts the parts of the peer's bytes that reached the    *)
(* socket before connect returned.                                         *)
(***************************************************************************)
ValidAddrs == { "127.0.0.1" }

\* the match with every tag but AccDenied taken for a granted login
login_result_lenient(status) ==
    CASE status = "AccDenied" -> "Auth"
      [] OTHER -> "Ok"

\* the match without its AccDenied arm
login_result_noauth(status) ==
    CASE status = "AccGranted" -> "Ok"
      [] OTHER -> "UnexpectedPkg"

\* the match on the login response
login_result(status) ==
    CASE status = "AccGranted" -> "Ok"
      [] status = "AccDenied" -> "Auth"
      [] OTHER -> "UnexpectedPkg"

\* a connect that returns no Connection: an error return drops the TcpStream
\* it opened; a connect blocked in a read has not returned and holds it open
ConnErr(res, msg, buf, out, ev, eof, fed, opened) ==
    [res |-> res, conn |-> << >>, msg |-> msg, buf |-> buf, out |-> out,
     ev |-> ev, eof |-> eof, fed |-> fed,
     sock |-> IF ~opened THEN "none"
              ELSE IF res = "Blocked" THEN "open" ELSE "dropped"]

\* a connect that builds its Connection without the greeting it received
connect_status_nogreet(addr, port, greet, lg, out, ev4, buf2, eof2, fed) ==
    With(decode_from("PkgType", buf2, eof2, CtrlLimit), LAMBDA status :
    With(ev4 \o << RdEv("PkgType", status) >>, LAMBDA ev5 :
    IF status.st # "ok"
    THEN ConnErr(RdFail(status), NoMsg, status.buf, out, ev5, eof2, fed, TRUE)
    ELSE IF login_result(status.v) = "Ok"
    THEN [res |-> "Ok",
          conn |-> << [ip |-> addr, port |-> port, greeting |-> NoGreeting,
                       user_data |-> lg] >>,
          msg |-> NoMsg, buf |-> status.buf, out |-> out, ev |-> ev5,
          eof |-> eof2, fed |-> fed, sock |-> "open"]
    ELSE ConnErr(login_result(status.v), NoMsg, status.buf, out, ev5, eof2,
                 fed, TRUE)))

\* a connect that refuses a server of another protocol version
connect_status_enforced(addr, port, greet, lg, out, ev4, buf2, eof2, fed) ==
    With(decode_from("PkgType", buf2, eof2, CtrlLimit), LAMBDA status :
    With(ev4 \o << RdEv("PkgType", status) >>, LAMBDA ev5 :
    IF status.st # "ok"
    THEN ConnErr(RdFail(status), NoMsg, status.buf, out, ev5, eof2, fed, TRUE)
    ELSE IF login_result(status.v) = "Ok"
            /\ greet.protocol_version = PROTOCOL_VERSION
    THEN [res |-> "Ok",
          conn |-> << [ip |-> addr, port |-> port, greeting |-> greet,
                       user_data |-> lg] >>,
          msg |-> NoMsg, buf |-> status.buf, out |-> out, ev |-> ev5,
          eof |-> eof2, fed |-> fed, sock |-> "open"]
    ELSE ConnErr("UnexpectedPkg", NoMsg, status.buf, out, ev5, eof2, fed, TRUE)))

\* lines 138-148: the login response, read from the stream buf2
connect_status(addr, port, greet, lg, out, ev4, buf2, eof2, fed) ==
    With(decode_from("PkgType", buf2, eof2, CtrlLimit), LAMBDA status :
    With(ev4 \o << RdEv("PkgType", status) >>, LAMBDA ev5 :
    IF status.st # "ok"
    THEN ConnErr(RdFail(status), NoMsg, status.buf, out, ev5, eof2, fed, TRUE)
    ELSE IF login_result(status.v) = "Ok"
    THEN [res |-> "Ok",
          conn |-> << [ip |-> addr, port |-> port, greeting |-> greet,
                       user_data |-> lg] >>,
          msg |-> NoMsg, buf |-> status.buf, out |-> out, ev |-> ev5,
          eof |-> eof2, fed |-> fed, sock |-> "open"]
    ELSE ConnErr(login_result(status.v), NoMsg, status.buf, out, ev5, eof2,
                 fed, TRUE)))

\* lines 123-136: the Login tag and the Login data
connect_login(addr, port, greet, lg, ev2, buf1, eof1, f2, wf) ==
    With(encode_into(EncTag("Login"), CtrlLimit, eof1 /\ wf = 1), LAMBDA w1 :
    With(ev2 \o << WrEv("PkgType", "Login", w1) >>, LAMBDA ev3 :
    IF ~w1.ok
    THEN ConnErr("Encode", NoMsg, buf1, << >>, ev3, eof1, 1, TRUE)
    ELSE
    With(encode_into(EncLogin(lg), CtrlLimit, eof1 /\ wf = 2), LAMBDA w2 :
    With(ev3 \o << WrEv("Login", "-", w2) >>, LAMBDA ev4 :
    IF ~w2.ok
    THEN ConnErr("Encode", NoMsg, buf1, w1.out, ev4, eof1, 1, TRUE)
    ELSE connect_status(addr, port, greet, lg, w1.out \o w2.out, ev4,
                        IF eof1 THEN buf1 ELSE buf1 \o FeedBytes(f2),
                        eof1 \/ f2.close,
                        IF eof1 THEN 1 ELSE 2)))))

\* connect sending its Login without waiting for the server's greeting
connect_unordered(addr, port, usern, passwd, tcpOk, f1, f2, wf) ==
    IF addr \notin ValidAddrs
    THEN ConnErr("AddrParse", NoMsg, << >>, << >>, << >>, FALSE, 0, FALSE)
    ELSE IF ~tcpOk
    THEN ConnErr("Io", NoMsg, << >>, << >>, << >>, FALSE, 0, FALSE)
    ELSE connect_login(addr, port, NoGreeting,
                       [username |-> usern, password |-> passwd],
                       << >>, FeedBytes(f1), f1.close, f2, wf)

connect(addr, port, usern, passwd, tcpOk, f1, f2, wf) ==
    IF addr \notin ValidAddrs
    THEN ConnErr("AddrParse", NoMsg, << >>, << >>, << >>, FALSE, 0, FALSE)
    ELSE IF ~tcpOk
    THEN ConnErr("Io", NoMsg, << >>, << >>, << >>, FALSE, 0, FALSE)
    ELSE
    With(receive(FeedBytes(f1), f1.close, "Greet"), LAMBDA g :
    IF g.res # "Ok"
    THEN ConnErr(g.res, g.msg, g.buf, << >>, g.ev, f1.close, 1, TRUE)
    ELSE
    With(decode_from("Greeting", g.buf, f1.close, CtrlLimit), LAMBDA greet :
    IF greet.st # "ok"
    THEN ConnErr(RdFail(greet), NoMsg, greet.buf, << >>,
                 g.ev \o << RdEv("Greeting", greet) >>, f1.close, 1, TRUE)
    ELSE connect_login(addr, port, greet.v,
                       [username |-> usern, password |-> passwd],
                       g.ev \o << RdEv("Greeting", greet) >>,
                       greet.buf, f1.close, f2, wf)))

(***************************************************************************)
(* Connection::ping, quit and execute on the stream buf0 (the unread bytes *)
(* followed by what the peer sends once the command is written).           *)
(***************************************************************************)
OpRes(res, msg, data, buf, out, ev, sent) ==
    [res |-> res, msg |-> msg, data |-> data, buf |-> buf, out |-> out,
     ev |-> ev, sent |-> sent]

ping(rx0, feed, eof0, wf) ==
    With(send_cmd([kind |-> "Ping", text |-> << >>], CtrlLimit, wf), LAMBDA s :
    IF s.res # "Ok"
    THEN OpRes(s.res, NoMsg, NoData, rx0, s.out, s.ev, FALSE)
    ELSE With(receive(rx0 \o FeedBytes(feed), eof0 \/ feed.close, "Ok"), LAMBDA r :
              OpRes(r.res, r.msg, NoData, r.buf, s.out, s.ev \o r.ev, TRUE)))

quit(rx0, feed, eof0, wf) ==
    With(send_cmd([kind |-> "Quit", text |-> << >>], CtrlLimit, wf), LAMBDA s :
    IF s.res # "Ok"
    THEN OpRes(s.res, NoMsg, NoData, rx0, s.out, s.ev, FALSE)
    ELSE With(receive(rx0 \o FeedBytes(feed), eof0 \/ feed.close, "Ok"), LAMBDA r :
              OpRes(r.res, r.msg, NoData, r.buf, s.out, s.ev \o r.ev, TRUE)))

\* ResultSet -> DataSet: the data bytes cut into rows of one cell per column
preprocess(rs) ==
    LET w == Len(rs.columns)
        n == IF w = 0 THEN 0 ELSE Len(rs.data) \div w
    IN  [columns |-> rs.columns,
         rows |-> [i \in 1 .. n |-> SubSeq(rs.data, (i - 1) * w + 1, i * w)]]

execute(query, rx0, feed, eof0, wf) ==
    With(send_cmd([kind |-> "Query", text |-> query], CtrlLimit, wf), LAMBDA s :
    IF s.res # "Ok"
    THEN OpRes(s.res, NoMsg, NoData, rx0, s.out, s.ev, FALSE)
    ELSE
    With(receive(rx0 \o FeedBytes(feed), eof0 \/ feed.close, "Response"), LAMBDA r :
    IF r.res # "Ok"
    THEN OpRes(r.res, r.msg, NoData, r.buf, s.out, s.ev \o r.ev, TRUE)
    ELSE
    With(decode_from("ResultSet", r.buf, eof0 \/ feed.close, Infinite), LAMBDA rows :
    IF rows.st # "ok"
    THEN OpRes(RdFail(rows), NoMsg, NoData, rows.buf, s.out,
               s.ev \o r.ev \o << RdEv("ResultSet", rows) >>, TRUE)
    ELSE OpRes("Ok", NoMsg, preprocess(rows.v), rows.buf, s.out,
               s.ev \o r.ev \o << RdEv("ResultSet", rows) >>, TRUE))))

(***************************************************************************)
(* The accessors of a Connection c.                                        *)
(***************************************************************************)
get_version(c) == c.greeting.protocol_version
get_message(c) == c.greeting.message
get_ip(c) == c.ip
get_port(c) == c.port
get_username(c) == c.user_data.username

(***************************************************************************)
(* The inputs the model draws from.                                        *)
(***************************************************************************)
Addrs == { "127.0.0.1", "localhost" }
Port == 4242
BigStr == [i \in 1 .. CtrlLimit + 1 |-> 97]
Users == { << 97 >> }
Passwords == { << 112 >>, BigStr }
Queries == { << 113 >>, BigStr }
Greetings == { [protocol_version |-> PROTOCOL_VERSION, message |-> << 104, 105 >>],
               [protocol_version |-> 2, message |-> << >>] }
ErrMsgs == { [code |-> 3, msg |-> << 101 >>] }
ResultSets == { [data |-> << 7, 8 >>, columns |-> << << 99 >>, << 100 >> >>],
                [data |-> << >>, columns |-> << >>],
                \* more bytes than any bounded payload may hold
                [data |-> BigStr, columns |-> << << 99 >> >>] }
SomeLogin == [username |-> << 97 >>, password |-> << 112 >>]

\* the payloads a well-formed peer sends with a tag
Payloads(t) ==
    CASE t = "Greet" -> { EncGreeting(g) : g \in Greetings }
      [] t = "Login" -> { EncLogin(SomeLogin) }
      [] t = "Command" -> { EncCommand([kind |-> "Ping", text |-> << >>]),
                            EncCommand([kind |-> "Query", text |-> << 113 >>]) }
      [] t = "Error" -> { EncErrMsg(m) : m \in ErrMsgs }
      [] t = "Response" -> { EncResultSet(rs) : rs \in ResultSets }
      [] OTHER -> { << >> }
WellFormed(f) == f.tag \in PkgType /\ f.body \in Payloads(f.tag)

Feeds ==
    UNION { { MkFeed(t, b, FALSE) : b \in Payloads(t) } : t \in PkgType }
    \cup { NoFeed, MkFeed("none", << >>, TRUE), MkFeed("bad", << >>, FALSE),
           MkFeed("Ok", << >>, TRUE),
           \* the greeting, after which the peer closes
           MkFeed("Greet", EncGreeting([protocol_version |-> PROTOCOL_VERSION,
                                        message |-> << 104, 105 >>]), TRUE),
           \* the greeting with the login response sent along, unasked
           MkFeed("Greet", EncGreeting([protocol_version |-> PROTOCOL_VERSION,
                                        message |-> << 104, 105 >>])
                           \o EncTag("AccGranted"), FALSE),
           \* a whole Greeting larger than the bound of the control payloads
           MkFeed("Greet", EncGreeting([protocol_version |-> PROTOCOL_VERSION,
                                        message |-> BigStr]), FALSE),
           \* a Greeting whose message claims 2000 bytes
           MkFeed("Greet", U8(1) \o U64(2000), FALSE),
           \* a Greeting whose message is not UTF-8
           MkFeed("Greet", U8(1) \o EncStr(<< 255 >>), FALSE),
           \* payloads cut short by the peer closing
           MkFeed("Error", U16(3) \o U64(5) \o << 101 >>, TRUE),
           MkFeed("Response", U64(4) \o << 7 >>, TRUE) }

(***************************************************************************)
(* The state machine: one connect, then ping / quit / execute calls on the *)
(* Connection it returned, each with what the peer sends in reply.         *)
(***************************************************************************)
\* the sockets the listener may come to accept: the i-th is what the i-th
\* item of incoming() holds
Sockets == 1 .. MaxIncoming
NoLogin == [username |-> << >>, password |-> << >>]

\* no query has been parsed
NoParse == [toks |-> << >>, parsed |-> FALSE, res |-> << >>]

\* the client has made no call yet and has read none of the handler's bytes
LiveInit == [pc |-> "start", nread |-> 0, op |-> "-", passwd |-> << >>,
             query |-> << >>]

NoCall == [op |-> "init", res |-> "-", msg |-> NoMsg, data |-> NoData,
           f1 |-> NoFeed, f2 |-> NoFeed, fed |-> 0, rx0 |-> << >>, out |-> << >>,
           ev |-> << >>, arg |-> << >>, arglen |-> 0, addr |-> "-", port |-> 0]

Init ==
    /\ sock = "none"
    /\ conn = << >>
    /\ rx = << >>
    /\ tx = << >>
    /\ peerClosed = FALSE
    /\ log = << >>
    /\ last = NoCall
    /\ nOps = 0
    /\ live = LiveInit
    /\ pres = NoParse
    /\ incoming = << >>
    /\ threads = << >>
    /\ warned = 0
    /\ hpc = [s \in Sockets |-> "NotAccepted"]
    /\ hin = [s \in Sockets |-> << >>]
    /\ hout = [s \in Sockets |-> << >>]
    /\ hclosed = [s \in Sockets |-> FALSE]
    /\ hcred = [s \in Sockets |-> NoLogin]
    /\ hlog = [s \in Sockets |-> << >>]
    /\ nSent = 0

Connect ==
    /\ sock = "none" /\ last.op = "init"
    /\ \E addr \in Addrs, usern \in Users, passwd \in Passwords,
          tcpOk \in BOOLEAN, f1 \in Feeds, f2 \in Feeds, wf \in 0 .. 2 :
        /\ wf # 0 => f1.close
        \* a peer that has sent its login response along with the greeting
        \* sends nothing more
        /\ ~WellFormed(f1) /\ f1.tag = "Greet" => f2 = NoFeed
        /\ LET c == connect(addr, Port, usern, passwd, tcpOk, f1, f2, wf)
           IN  /\ sock' = c.sock
               /\ conn' = c.conn
               /\ rx' = c.buf
               /\ tx' = c.out
               /\ peerClosed' = c.eof
               /\ log' = c.ev
               /\ last' = [op |-> "connect", res |-> c.res, msg |-> c.msg,
                           data |-> NoData,
                           f1 |-> IF c.fed >= 1 THEN f1 ELSE NoFeed,
                           f2 |-> IF c.fed >= 2 THEN f2 ELSE NoFeed,
                           fed |-> c.fed, rx0 |-> << >>, out |-> c.out,
                           ev |-> c.ev, arg |-> usern,
                           arglen |-> Len(EncLogin([username |-> usern,
                                                    password |-> passwd])),
                           addr |-> addr, port |-> Port]
               /\ nOps' = 0
    /\ UNCHANGED <<srvVars, live, pres>>

\* a call on the Connection: possible while the caller holds it and its
\* previous call has returned
CanCall == sock = "open" /\ Len(conn) = 1 /\ last.res # "Blocked" /\ nOps < MaxOps

Called(op, r, feed, arg, arglen) ==
    /\ rx' = r.buf
    /\ tx' = tx \o r.out
    /\ peerClosed' = (peerClosed \/ (r.sent /\ feed.close))
    /\ log' = log \o r.ev
    /\ last' = [op |-> op, res |-> r.res, msg |-> r.msg, data |-> r.data,
                f1 |-> IF r.sent THEN feed ELSE NoFeed, f2 |-> NoFeed,
                fed |-> IF r.sent THEN 1 ELSE 0, rx0 |-> rx, out |-> r.out,
                ev |-> r.ev, arg |-> arg, arglen |-> arglen,
                addr |-> "-", port |-> 0]
    /\ nOps' = nOps + 1
    /\ UNCHANGED <<sock, conn>>
    /\ UNCHANGED <<srvVars, live, pres>>

\* the peer's part of a call: what it sends, and the write the socket refuses
PeerInput(feed, wf) ==
    /\ peerClosed => feed = NoFeed
    /\ wf # 0 => peerClosed

Ping ==
    /\ CanCall
    /\ \E feed \in Feeds, wf \in 0 .. 2 :
        /\ PeerInput(feed, wf)
        /\ Called("ping", ping(rx, feed, peerClosed, wf), feed, << >>, 4)

Quit ==
    /\ CanCall
    /\ \E feed \in Feeds, wf \in 0 .. 2 :
        /\ PeerInput(feed, wf)
        /\ Called("quit", quit(rx, feed, peerClosed, wf), feed, << >>, 4)

Execute ==
    /\ CanCall
    /\ \E query \in Queries, feed \in Feeds, wf \in 0 .. 2 :
        /\ PeerInput(feed, wf)
        /\ Called("execute", execute(query, rx, feed, peerClosed, wf), feed,
                  IF Len(query) <= 8 THEN query ELSE << >>,
                  Len(EncCommand([kind |-> "Query", text |-> query])))

\* the caller lets go of the Connection: its TcpStream is closed
DropConnection ==
    /\ sock = "open" /\ Len(conn) = 1 /\ last.res # "Blocked"
    /\ sock' = "dropped"
    /\ conn' = << >>
    /\ last' = [NoCall EXCEPT !.op = "drop"]
    /\ UNCHANGED <<rx, tx, peerClosed, log, nOps>>
    /\ UNCHANGED <<srvVars, live, pres>>

Next == Connect \/ Ping \/ Quit \/ Execute \/ DropConnection

Spec == Init /\ [][Next]_vars

(***************************************************************************)
(* connect against a server of any protocol version: the Greeting carries  *)
(* a u8, and the login is granted or denied.                               *)
(***************************************************************************)
VersionGreeting(v) == [protocol_version |-> v, message |-> << 104, 105 >>]

ConnectVersion ==
    /\ sock = "none" /\ last.op = "init"
    /\ \E v \in Byte, usern \in Users, passwd \in Passwords,
          t \in { "AccGranted", "AccDenied" } :
        LET f1 == MkFeed("Greet", EncGreeting(VersionGreeting(v)), FALSE)
            f2 == MkFeed(t, << >>, FALSE)
            c == connect("127.0.0.1", Port, usern, passwd, TRUE, f1, f2, 0)
        IN  /\ sock' = c.sock
            /\ conn' = c.conn
            /\ rx' = c.buf
            /\ tx' = c.out
            /\ peerClosed' = c.eof
            /\ log' = c.ev
            /\ last' = [op |-> "connect", res |-> c.res, msg |-> c.msg,
                        data |-> NoData,
                        f1 |-> IF c.fed >= 1 THEN f1 ELSE NoFeed,
                        f2 |-> IF c.fed >= 2 THEN f2 ELSE NoFeed,
                        fed |-> c.fed, rx0 |-> << >>, out |-> c.out,
                        ev |-> c.ev, arg |-> usern,
                        arglen |-> Len(EncLogin([username |-> usern,
                                                 password |-> passwd])),
                        addr |-> "127.0.0.1", port |-> Port]
            /\ nOps' = 0
    /\ UNCHANGED <<srvVars, live, pres>>

NextVersion == ConnectVersion

SpecVersion == Init /\ [][NextVersion]_vars

(***************************************************************************)
(* The server.  listen (src/src/main.rs) takes the items of                *)
(* listener.incoming() one by one: an accepted stream is moved into a      *)
(* newly spawned thread that runs the connection handler on it, a failed   *)
(* accept is logged.  The handler runs                                     *)
(*   AwaitGreetingSend -> AwaitLogin -> Authorizing -> Serving -> Closed.  *)
(***************************************************************************)
ServerGreeting == [protocol_version |-> PROTOCOL_VERSION, message |-> << 104, 105 >>]
\* the authorization collaborator: the accounts it grants
Accounts == { SomeLogin }
Authorized(l) == l \in Accounts
BadLogin == [username |-> << 97 >>, password |-> << 120 >>]

\* what a client may put on its socket, one packet at a time
ClientPackets ==
    { \* a client that does not wait for the answer to its login
      EncTag("Login") \o EncLogin(SomeLogin)
          \o EncTag("Command") \o EncCommand([kind |-> "Ping", text |-> << >>]),
      EncTag("Login") \o EncLogin(BadLogin)
          \o EncTag("Command") \o EncCommand([kind |-> "Ping", text |-> << >>]),
      EncTag("Command") \o EncCommand([kind |-> "Quit", text |-> << >>]),
      EncTag("Command") \o EncCommand([kind |-> "Query", text |-> << 113 >>]),
      EncTag("Ok") }

HEv(ev, v) == [ev |-> ev, v |-> v]

\* a listener that starts a second thread on the socket it accepted before
Accept_shared ==
    /\ Len(incoming) < MaxIncoming
    /\ LET s == Len(incoming) + 1
       IN  /\ incoming' = Append(incoming, "ok")
           /\ threads' = Append(threads, IF threads = << >> THEN s ELSE threads[1])
           /\ hpc' = [hpc EXCEPT ![s] = "AwaitGreetingSend"]
    /\ UNCHANGED <<warned, hin, hout, hclosed, hcred, hlog, nSent>>
    /\ UNCHANGED cliVars

\* for stream in listener.incoming(): Ok(stream) => thread::spawn(handle(stream))
Accept ==
    /\ Len(incoming) < MaxIncoming
    /\ LET s == Len(incoming) + 1
       IN  /\ incoming' = Append(incoming, "ok")
           /\ threads' = Append(threads, s)
           /\ hpc' = [hpc EXCEPT ![s] = "AwaitGreetingSend"]
    /\ UNCHANGED <<warned, hin, hout, hclosed, hcred, hlog, nSent>>
    /\ UNCHANGED cliVars

\* a listener that starts a handler for the connection it failed to accept
AcceptFail_spawn ==
    /\ Len(incoming) < MaxIncoming
    /\ LET s == Len(incoming) + 1
       IN  /\ incoming' = Append(incoming, "err")
           /\ threads' = Append(threads, s)
           /\ hpc' = [hpc EXCEPT ![s] = "AwaitGreetingSend"]
    /\ warned' = warned + 1
    /\ UNCHANGED <<hin, hout, hclosed, hcred, hlog, nSent>>
    /\ UNCHANGED cliVars

\* Err(e) => warn!(...)
AcceptFail ==
    /\ Len(incoming) < MaxIncoming
    /\ incoming' = Append(incoming, "err")
    /\ warned' = warned + 1
    /\ UNCHANGED <<threads, hpc, hin, hout, hclosed, hcred, hlog, nSent>>
    /\ UNCHANGED cliVars

\* the client of an accepted socket that the server has not closed sends a
\* packet
ClientSend(s) ==
    /\ hpc[s] \notin { "NotAccepted", "Closed" } /\ ~hclosed[s] /\ nSent < MaxSent
    /\ \E pk \in ClientPackets : hin' = [hin EXCEPT ![s] = @ \o pk]
    /\ nSent' = nSent + 1
    /\ UNCHANGED <<incoming, threads, warned, hpc, hout, hclosed, hcred, hlog>>
    /\ UNCHANGED cliVars

\* the client of an accepted socket that the server has not closed closes
\* it.  The handler reads what was sent before the close in either order of
\* its reads and the close, so the close is taken once that is read.
ClientClose(s) ==
    /\ hpc[s] \notin { "NotAccepted", "Closed" } /\ ~hclosed[s] /\ hin[s] = << >>
    /\ hclosed' = [hclosed EXCEPT ![s] = TRUE]
    /\ UNCHANGED <<incoming, threads, warned, hpc, hin, hout, hcred, hlog, nSent>>
    /\ UNCHANGED cliVars

\* a handler whose end takes the other handlers down with it
HStep_shared(s, pc, buf, out, cred, evs) ==
    /\ hpc' = [t \in Sockets |->
                  IF t = s \/ (pc = "Closed" /\ hpc[t] # "NotAccepted")
                  THEN pc ELSE hpc[t]]
    /\ hin' = [hin EXCEPT ![s] = buf]
    /\ hout' = [hout EXCEPT ![s] = @ \o out]
    /\ hcred' = [hcred EXCEPT ![s] = cred]
    /\ hlog' = [hlog EXCEPT ![s] = @ \o evs]
    /\ UNCHANGED <<incoming, threads, warned, hclosed, nSent>>
    /\ UNCHANGED cliVars

\* one step of the handler of socket s: its new state, the bytes it read
\* away, the bytes it wrote and what it did
HStep(s, pc, buf, out, cred, evs) ==
    /\ hpc' = [hpc EXCEPT ![s] = pc]
    /\ hin' = [hin EXCEPT ![s] = buf]
    /\ hout' = [hout EXCEPT ![s] = @ \o out]
    /\ hcred' = [hcred EXCEPT ![s] = cred]
    /\ hlog' = [hlog EXCEPT ![s] = @ \o evs]
    /\ UNCHANGED <<incoming, threads, warned, hclosed, nSent>>
    /\ UNCHANGED cliVars

\* on accept: the Greet tag and the Greeting
HandlerGreet(s) ==
    /\ hpc[s] = "AwaitGreetingSend"
    /\ HStep(s, "AwaitLogin", hin[s],
             EncTag("Greet") \o EncGreeting(ServerGreeting), hcred[s],
             << HEv("snd", "Greet"), HEv("snd", "Greeting") >>)

\* the state after the Login tag and the Login payload were read
login_read(tag, lg) ==
    IF tag.st # "ok" \/ tag.v # "Login" \/ lg.st # "ok"
    THEN [pc |-> "Closed", buf |-> IF tag.st = "ok" /\ tag.v = "Login"
                                   THEN lg.buf ELSE tag.buf,
          cred |-> NoLogin, evs |-> << HEv("fail", "Login"), HEv("close", "-") >>]
    ELSE [pc |-> "Authorizing", buf |-> lg.buf, cred |-> lg.v,
          evs |-> << HEv("rd", "Login") >>]

\* read the Login tag and the Login payload (bounded)
HandlerLogin(s) ==
    /\ hpc[s] = "AwaitLogin"
    /\ LET tag == decode_from("PkgType", hin[s], hclosed[s], CtrlLimit)
           lg == decode_from("Login", tag.buf, hclosed[s], CtrlLimit)
           r == login_read(tag, lg)
       IN  /\ tag.st # "block"
           /\ (tag.st = "ok" /\ tag.v = "Login") => lg.st # "block"
           /\ HStep(s, r.pc, r.buf, << >>, r.cred, r.evs)

\* a handler that lets a denied client try again
authorize_retry(cred) ==
    IF Authorized(cred)
    THEN [pc |-> "Serving", out |-> EncTag("AccGranted"),
          evs |-> << HEv("snd", "AccGranted") >>]
    ELSE [pc |-> "AwaitLogin", out |-> EncTag("AccDenied"),
          evs |-> << HEv("snd", "AccDenied") >>]

\* the outcome of the authorization: AccGranted and on to Serving, or
\* AccDenied and the socket closed
authorize(cred) ==
    IF Authorized(cred)
    THEN [pc |-> "Serving", out |-> EncTag("AccGranted"),
          evs |-> << HEv("snd", "AccGranted") >>]
    ELSE [pc |-> "Closed", out |-> EncTag("AccDenied"),
          evs |-> << HEv("snd", "AccDenied"), HEv("close", "-") >>]

HandlerAuthorize(s) ==
    /\ hpc[s] = "Authorizing"
    /\ LET r == authorize(hcred[s])
       IN  HStep(s, r.pc, hin[s], r.out, NoLogin, r.evs)

\* the answer to a command; ok is the outcome of the query's execution
dispatch(cmd, ok, rs, m) ==
    CASE cmd.kind = "Ping" ->
             [pc |-> "Serving", out |-> EncTag("Ok"),
              evs |-> << HEv("dispatch", "Ping"), HEv("snd", "Ok") >>]
      [] cmd.kind = "Quit" ->
             [pc |-> "Closed", out |-> EncTag("Ok"),
              evs |-> << HEv("dispatch", "Quit"), HEv("snd", "Ok"),
                         HEv("close", "-") >>]
      [] cmd.kind = "Query" ->
             IF ok
             THEN [pc |-> "Serving", out |-> EncTag("Response") \o EncResultSet(rs),
                   evs |-> << HEv("dispatch", "Query"), HEv("snd", "Response") >>]
             ELSE [pc |-> "Serving", out |-> EncTag("Error") \o EncErrMsg(m),
                   evs |-> << HEv("dispatch", "Query"), HEv("snd", "Error") >>]

\* Serving: read the Command tag and the Command payload, dispatch
HandlerCommand(s) ==
    /\ hpc[s] = "Serving"
    /\ LET tag == decode_from("PkgType", hin[s], hclosed[s], CtrlLimit)
           cmd == decode_from("Command", tag.buf, hclosed[s], CtrlLimit)
       IN  /\ tag.st # "block"
           /\ (tag.st = "ok" /\ tag.v = "Command") => cmd.st # "block"
           /\ IF tag.st # "ok" \/ tag.v # "Command"
              THEN HStep(s, "Closed", tag.buf, << >>, hcred[s],
                         << HEv("fail", "Command"), HEv("close", "-") >>)
              ELSE IF cmd.st # "ok"
              THEN HStep(s, "Closed", cmd.buf, << >>, hcred[s],
                         << HEv("fail", "Command"), HEv("close", "-") >>)
              ELSE \E ok \in BOOLEAN, rs \in { [data |-> << 7, 8 >>,
                                               columns |-> << << 99 >>, << 100 >> >>] },
                      m \in ErrMsgs :
                       LET r == dispatch(cmd.v, ok, rs, m)
                       IN  HStep(s, r.pc, cmd.buf, r.out, hcred[s], r.evs)

\* the handler thread dies where it is about to write (the write fails, or
\* the thread panics): its stream is dropped with it
HandlerCrash(s) ==
    /\ hpc[s] \in { "AwaitGreetingSend", "Authorizing" }
    /\ HStep(s, "Closed", hin[s], << >>, hcred[s],
             << HEv("fail", "crash"), HEv("close", "-") >>)

Handler(s) ==
    \/ HandlerGreet(s)
    \/ HandlerLogin(s)
    \/ HandlerAuthorize(s)
    \/ HandlerCommand(s)
    \/ HandlerCrash(s)

NextSrv ==
    \/ Accept
    \/ AcceptFail
    \/ \E s \in Sockets : ClientSend(s)
    \/ \E s \in Sockets : ClientClose(s)
    \/ \E s \in Sockets : Handler(s)

SpecSrv == Init /\ [][NextSrv]_vars

(***************************************************************************)
(* The client against a handler.  The client's calls run on the socket     *)
(* that the listener accepted first: what the client writes is the         *)
(* handler's input, what the handler wrote and the client has not yet      *)
(* taken is the client's input.  A call is two steps, its writes and, once *)
(* the bytes it reads are there, its reads and return.                     *)
(***************************************************************************)
LiveUser == << 97 >>
LivePasswords == { << 112 >>, << 120 >> }
\* the handler's bytes the client has not taken, and whether the handler has
\* closed the socket
LiveFeed == MkFeed("none", Drop(hout[1], live.nread), hpc[1] = "Closed")

\* connect as far as the bytes that are there let it go
LiveConnectRes(passwd) ==
    connect("127.0.0.1", Port, LiveUser, passwd, TRUE, LiveFeed, NoFeed, 0)
\* the reads of the call under way
LiveCallRes ==
    CASE live.op = "ping" -> ping(rx, LiveFeed, FALSE, 0)
      [] live.op = "quit" -> quit(rx, LiveFeed, FALSE, 0)
      [] OTHER -> execute(live.query, rx, LiveFeed, FALSE, 0)
LiveCommand(op, query) ==
    CASE op = "ping" -> [kind |-> "Ping", text |-> << >>]
      [] op = "quit" -> [kind |-> "Quit", text |-> << >>]
      [] OTHER -> [kind |-> "Query", text |-> query]

LiveLast(op, r, out, arg, arglen) ==
    [op |-> op, res |-> r.res, msg |-> r.msg, data |-> NoData,
     f1 |-> LiveFeed, f2 |-> NoFeed, fed |-> 1, rx0 |-> rx, out |-> out,
     ev |-> r.ev, arg |-> arg, arglen |-> arglen, addr |-> "-", port |-> 0]

\* the reads and writes of ev that were made: a read that waits for its
\* bytes has not been made yet
Completed(ev) == SelectSeq(ev, LAMBDA e : e.st # "block")
\* the writes of send_cmd in the call under way
LiveSent == send_cmd(LiveCommand(live.op, live.query), CtrlLimit, 0).ev

\* connect, TcpStream::connect: the client holds its stream, whether or not
\* the listener has taken the connection, and goes on to read the greeting
LiveOpen ==
    /\ live.pc = "start" /\ sock = "none"
    /\ sock' = "open"
    /\ live' = [live EXCEPT !.pc = "greet"]
    /\ UNCHANGED <<conn, rx, tx, peerClosed, log, last, nOps, pres>>
    /\ UNCHANGED srvVars

\* the listener takes the client's connection from incoming() and spawns its
\* handler
LiveAccept ==
    /\ sock = "open" /\ Len(incoming) = 0
    /\ Accept

\* connect, first part: the Greet tag and the Greeting are read, the Login
\* tag and the Login are written
LiveLogin ==
    /\ UNCHANGED pres
    /\ live.pc = "greet"
    /\ \E passwd \in LivePasswords :
        LET c == LiveConnectRes(passwd)
        IN  /\ c.res = "Blocked" /\ c.out # << >>
            /\ tx' = c.out
            /\ log' = Completed(c.ev)
            /\ hin' = [hin EXCEPT ![1] = @ \o c.out]
            /\ live' = [live EXCEPT !.pc = "login", !.passwd = passwd]
    /\ UNCHANGED <<sock, conn, rx, peerClosed, last, nOps>>
    /\ UNCHANGED <<incoming, threads, warned, hpc, hout, hclosed, hcred, hlog, nSent>>

\* connect, second part: the login response is read and connect returns; a
\* failed connect drops the stream
LiveConnected ==
    /\ UNCHANGED pres
    /\ live.pc = "login"
    /\ LET c == LiveConnectRes(live.passwd)
       IN  /\ c.res # "Blocked"
           /\ sock' = c.sock
           /\ conn' = c.conn
           /\ rx' = c.buf
           /\ peerClosed' = c.eof
           /\ log' = c.ev
           /\ last' = [LiveLast("connect", c, c.out, LiveUser, Len(c.out) - 4)
                           EXCEPT !.rx0 = << >>, !.addr = "127.0.0.1", !.port = Port]
           /\ live' = [live EXCEPT !.pc = IF c.res = "Ok" THEN "idle" ELSE "done",
                                   !.nread = Len(hout[1])]
           /\ hclosed' = [hclosed EXCEPT ![1] = (c.res # "Ok")]
    /\ UNCHANGED <<tx, nOps>>
    /\ UNCHANGED <<incoming, threads, warned, hpc, hin, hout, hcred, hlog, nSent>>

\* ping, quit or execute, first part: the call is made and send_cmd writes.
\* A failed send_cmd returns at once.
LiveSend ==
    /\ UNCHANGED pres
    /\ live.pc = "idle" /\ nOps < MaxOps
    /\ \E op \in { "ping", "quit", "execute" }, query \in Queries, wf \in 0 .. 2 :
        /\ op # "execute" => query = << 113 >>
        /\ wf # 0 => hpc[1] = "Closed"
        /\ LET s == send_cmd(LiveCommand(op, query), CtrlLimit, wf)
               r == [res |-> s.res, msg |-> NoMsg, ev |-> s.ev]
           IN  /\ tx' = tx \o s.out
               /\ hin' = [hin EXCEPT ![1] = @ \o s.out]
               /\ log' = log \o s.ev
               /\ nOps' = nOps + 1
               /\ IF s.res = "Ok"
                  THEN /\ live' = [live EXCEPT !.pc = "waiting", !.op = op,
                                               !.query = query]
                       /\ UNCHANGED last
                  ELSE /\ last' = [LiveLast(op, r, s.out, << >>,
                                            Len(EncCommand(LiveCommand(op, query))))
                                       EXCEPT !.fed = 0, !.f1 = NoFeed]
                       /\ UNCHANGED live
    /\ UNCHANGED <<sock, conn, rx, peerClosed>>
    /\ UNCHANGED <<incoming, threads, warned, hpc, hout, hclosed, hcred, hlog, nSent>>

\* ping, quit or execute, second part: receive (and the ResultSet), return
LiveRecv ==
    /\ UNCHANGED pres
    /\ live.pc = "waiting"
    /\ LET r == LiveCallRes
       IN  /\ r.res # "Blocked"
           /\ rx' = r.buf
           /\ peerClosed' = (hpc[1] = "Closed")
           /\ log' = log \o Drop(r.ev, Len(LiveSent))
           /\ last' = [LiveLast(live.op, r, r.out, << >>, Len(r.out) - 4)
                           EXCEPT !.data = r.data]
           /\ live' = [live EXCEPT !.pc = "idle", !.nread = Len(hout[1])]
    /\ UNCHANGED <<sock, conn, tx, nOps>>
    /\ UNCHANGED srvVars

\* the caller lets go of the Connection
LiveDrop ==
    /\ UNCHANGED pres
    /\ live.pc = "idle"
    /\ sock' = "dropped"
    /\ conn' = << >>
    /\ live' = [live EXCEPT !.pc = "done"]
    /\ hclosed' = [hclosed EXCEPT ![1] = TRUE]
    /\ UNCHANGED <<rx, tx, peerClosed, log, last, nOps>>
    /\ UNCHANGED <<incoming, threads, warned, hpc, hin, hout, hcred, hlog, nSent>>

\* the handler of the client's socket, following the protocol
LiveHandler ==
    \/ HandlerGreet(1)
    \/ HandlerLogin(1)
    \/ HandlerAuthorize(1)
    \/ HandlerCommand(1)

NextLive ==
    \/ LiveOpen
    \/ LiveAccept
    \/ LiveLogin
    \/ LiveConnected
    \/ LiveSend
    \/ LiveRecv
    \/ LiveDrop
    \/ LiveHandler

\* the conditions under which the steps that wait for bytes can be taken
HandlerLoginReady ==
    LET tag == decode_from("PkgType", hin[1], hclosed[1], CtrlLimit)
        lg == decode_from("Login", tag.buf, hclosed[1], CtrlLimit)
    IN  /\ hpc[1] = "AwaitLogin" /\ tag.st # "block"
        /\ (tag.st = "ok" /\ tag.v = "Login") => lg.st # "block"
HandlerCommandReady ==
    LET tag == decode_from("PkgType", hin[1], hclosed[1], CtrlLimit)
        cmd == decode_from("Command", tag.buf, hclosed[1], CtrlLimit)
    IN  /\ hpc[1] = "Serving" /\ tag.st # "block"
        /\ (tag.st = "ok" /\ tag.v = "Command") => cmd.st # "block"
LiveHandlerReady ==
    \/ hpc[1] \in { "AwaitGreetingSend", "Authorizing" }
    \/ HandlerLoginReady
    \/ HandlerCommandReady
LiveLoginReady ==
    /\ live.pc = "greet"
    /\ \E passwd \in LivePasswords :
           LiveConnectRes(passwd).res = "Blocked" /\ LiveConnectRes(passwd).out # << >>
LiveConnectedReady == live.pc = "login" /\ LiveConnectRes(live.passwd).res # "Blocked"
LiveRecvReady == live.pc = "waiting" /\ LiveCallRes.res # "Blocked"

\* Both threads are scheduled: the client opens its stream, the connection
\* is accepted, a read whose bytes are there is made, the handler takes its
\* next step.  Weak fairness of each of these steps, written for the steps
\* that wait for bytes with the condition under which the step can be taken.
SpecLive ==
    /\ Init /\ [][NextLive]_vars
    /\ WF_vars(LiveOpen)
    /\ WF_vars(LiveAccept)
    /\ ([]<>(~LiveLoginReady) \/ []<><<LiveLogin>>_vars)
    /\ ([]<>(~LiveConnectedReady) \/ []<><<LiveConnected>>_vars)
    /\ ([]<>(~LiveRecvReady) \/ []<><<LiveRecv>>_vars)
    /\ ([]<>(~LiveHandlerReady) \/ []<><<LiveHandler>>_vars)

(***************************************************************************)
(* Properties of the client.                                               *)
(***************************************************************************)
IsPrefix(p, s) == Len(p) <= Len(s) /\ SubSeq(s, 1, Len(p)) = p
Calls == { "ping", "quit", "execute" }
Returned == last.op \in Calls \cup { "connect" } /\ last.res # "Blocked"

\* everything the peer sent during connection setup, in stream order
SetupStream == FeedBytes(last.f1) \o FeedBytes(last.f2)
\* the client wrote its Login tag and Login payload
LoginWritten ==
    /\ Len(last.out) = Len(EncTag("Login")) + last.arglen
    /\ IsPrefix(EncTag("Login"), last.out)
\* the peer's bytes are the Greet tag, a Greeting within the bound, then tag t
SetupIs(t) ==
    \E g \in Greetings :
        /\ Len(EncGreeting(g)) <= CtrlLimit
        /\ IsPrefix(EncTag("Greet") \o EncGreeting(g) \o EncTag(t), SetupStream)

\* C1: connect returns a Connection exactly when the peer's bytes are the
\* Greet tag, a decodable Greeting and, the Login tag and payload having been
\* written, the AccGranted tag; every other connect returns Err, leaves no
\* Connection and keeps no socket.
C1_HandshakeOrdering ==
    (last.op = "connect" /\ Returned) =>
        /\ (last.res = "Ok") <=> (LoginWritten /\ SetupIs("AccGranted"))
        /\ (last.res = "Ok") <=> (Len(conn) = 1)
        /\ last.res # "Ok" =>
               /\ last.res \in ErrorKinds
               /\ conn = << >>
               /\ sock # "open"
C1_Witness ==
    /\ last.op = "connect" /\ last.res = "Ok" /\ Len(conn) = 1
    /\ last.f2.tag = "AccGranted"

\* C2: wherever the client waits for a tag (Greet and the login response in
\* connect, Ok in ping and quit, Response in execute) and the next bytes of
\* the stream are the Error tag and a ClientErrMsg m, the call fails with
\* Error::Server carrying m.
ErrorArrives(m) ==
    LET e == EncTag("Error") \o EncErrMsg(m)
    IN  \/ /\ last.op \in Calls /\ last.fed = 1
           /\ IsPrefix(e, last.rx0 \o FeedBytes(last.f1))
        \/ /\ last.op = "connect" /\ last.fed >= 1
           /\ IsPrefix(e, FeedBytes(last.f1))
        \/ /\ last.op = "connect" /\ last.fed = 2 /\ LoginWritten
           /\ \E g \in Greetings :
                  IsPrefix(EncTag("Greet") \o EncGreeting(g) \o e, SetupStream)
C2_ErrorPrecedence ==
    \A m \in ErrMsgs :
        ErrorArrives(m) => (last.res = "Server" /\ last.msg = m)

\* C3: when a call that began on an aligned stream gets one whole packet with
\* a tag other than the expected one and fails with UnexpectedPkg, receive has
\* consumed that packet's payload: no byte of it is left for the next call.
C3_StreamRealignment ==
    ( /\ last.op \in Calls /\ last.fed = 1
      /\ last.rx0 = << >> /\ WellFormed(last.f1)
      /\ last.res = "UnexpectedPkg" )
    => rx = << >>

\* C4: once quit has returned, no step writes to the socket or reads from it.
C4_QuitTearsDown ==
    [][ (last.op = "quit" /\ last.res # "Blocked")
        => (tx' = tx /\ log' = log) ]_vars

\* C5: when the login is answered with the AccDenied tag, connect fails with
\* Error::Auth, returns no Connection and drops the socket.
C5_DeniedLogin ==
    (last.op = "connect" /\ Returned /\ LoginWritten /\ SetupIs("AccDenied")) =>
        /\ last.res = "Auth"
        /\ conn = << >>
        /\ sock = "dropped"
C5_Witness ==
    /\ last.op = "connect" /\ last.res = "Auth"
    /\ last.f2 = MkFeed("AccDenied", << >>, FALSE)

\* C6: a call never writes its Command tag while bytes of the previous
\* call's response are unread or its command was left half written.
PrevUnread ==
    /\ last.op \in Calls /\ last.fed = 1 /\ Returned
    /\ last.rx0 = << >> /\ WellFormed(last.f1)
    /\ rx # << >>
PrevUnsent ==
    /\ last.op \in Calls /\ last.res = "Encode"
    /\ last.out = EncTag("Command")
C6_SingleInFlight ==
    [][ (PrevUnread \/ PrevUnsent) => tx' = tx ]_vars

\* C7: execute, once its command is written, returns Ok exactly when the
\* peer's answer to that command is the Response tag followed by a ResultSet
\* of any size, and the DataSet it returns is preprocess of that ResultSet.
C7_ExecuteRoundTrip ==
    (last.op = "execute" /\ Returned /\ last.fed = 1) =>
        LET Answer(rs) ==
                FeedBytes(last.f1) = EncTag("Response") \o EncResultSet(rs)
        IN  /\ (last.res = "Ok") <=> (\E rs \in ResultSets : Answer(rs))
            /\ last.res = "Ok" =>
                   \E rs \in ResultSets : Answer(rs) /\ last.data = preprocess(rs)

\* C8: on a socket the Login tag and the Login payload are written at most
\* once, exactly once where a Connection came of it, and only after the Greet
\* tag and the Greeting were read; a Command tag is written only after the
\* AccGranted tag was read as the login response.
IsRd(e, ty, v) == e.io = "rd" /\ e.ty = ty /\ e.st = "ok" /\ e.v = v
IsWr(e, ty) == e.io = "wr" /\ e.ty = ty
LoginTagWrites == { i \in DOMAIN log : IsWr(log[i], "PkgType") /\ log[i].v = "Login" }
LoginWrites == { i \in DOMAIN log : IsWr(log[i], "Login") }
CommandTagWrites ==
    { i \in DOMAIN log : IsWr(log[i], "PkgType") /\ log[i].v = "Command" }
C8_HandshakeOnce ==
    /\ Cardinality(LoginTagWrites) <= 1
    /\ Cardinality(LoginWrites) <= 1
    /\ \A i \in LoginTagWrites \cup LoginWrites :
           /\ i > 2
           /\ IsRd(log[1], "PkgType", "Greet")
           /\ IsRd(log[2], "Greeting", "-")
    /\ \A i \in LoginWrites : i - 1 \in LoginTagWrites
    /\ Len(conn) = 1 =>
           /\ LoginTagWrites = { 3 } /\ LoginWrites = { 4 }
           /\ log[3].st = "ok" /\ log[4].st = "ok"
    /\ \A i \in CommandTagWrites :
           i > 5 /\ LoginWrites = { 4 } /\ IsRd(log[5], "PkgType", "AccGranted")
C8_Witness ==
    /\ last.op \in Calls /\ last.res = "Ok" /\ nOps = 2
    /\ Cardinality(CommandTagWrites) = 2

\* C10: a call returns Ok only when every write it made went out and it read
\* the expected tag (and, in connect and execute, decoded the expected
\* payload); in every other case in which it returns, it returns one of the
\* kinds of Error.
EvOk(io, ty, v) == [io |-> io, ty |-> ty, st |-> "ok", v |-> v]
ExpectedIO(op, kind) ==
    CASE op = "connect" ->
             << EvOk("rd", "PkgType", "Greet"), EvOk("rd", "Greeting", "-"),
                EvOk("wr", "PkgType", "Login"), EvOk("wr", "Login", "-"),
                EvOk("rd", "PkgType", "AccGranted") >>
      [] op = "execute" ->
             << EvOk("wr", "PkgType", "Command"), EvOk("wr", "Command", "Query"),
                EvOk("rd", "PkgType", "Response"), EvOk("rd", "ResultSet", "-") >>
      [] OTHER ->
             << EvOk("wr", "PkgType", "Command"), EvOk("wr", "Command", kind),
                EvOk("rd", "PkgType", "Ok") >>
C10_FailuresReported ==
    Returned =>
        /\ last.res \in ErrorKinds \cup { "Ok" }
        /\ (last.res = "Ok") <=>
               (last.ev = ExpectedIO(last.op,
                                     IF last.op = "ping" THEN "Ping" ELSE "Quit"))
C10_Witness ==
    /\ last.op = "execute" /\ last.res = "Decode"
    /\ last.ev[Len(last.ev)] = [io |-> "rd", ty |-> "ResultSet", st |-> "err", v |-> "-"]

(***************************************************************************)
(* Properties of the server's connection handler.                          *)
(***************************************************************************)
EvAt(s, i, ev, v) == hlog[s][i] = HEv(ev, v)
LoginAttempts(s) ==
    { i \in 1 .. Len(hlog[s]) : hlog[s][i].v = "Login" /\ hlog[s][i].ev \in { "rd", "fail" } }

\* C9: a handler dispatches a Command only after it has sent AccGranted on
\* its connection; after a failed authorization it sends AccDenied, closes
\* the socket and reads no further Login or Command from it; every
\* connection has at most one login attempt.
C9_DispatchAfterGrant ==
    \A s \in Sockets :
        /\ \A i \in 1 .. Len(hlog[s]) :
               /\ hlog[s][i].ev = "dispatch" =>
                      \E j \in 1 .. i - 1 : EvAt(s, j, "snd", "AccGranted")
               /\ EvAt(s, i, "snd", "AccDenied") =>
                      /\ hpc[s] = "Closed"
                      /\ Len(hlog[s]) = i + 1
                      /\ EvAt(s, i + 1, "close", "-")
                      /\ \A j \in 1 .. i - 1 : ~EvAt(s, j, "snd", "AccGranted")
        /\ Cardinality(LoginAttempts(s)) <= 1

\* one handler has dispatched a command after the grant, another has denied
\* its client, who sent more afterwards
C9_Witness ==
    \E s, t \in Sockets :
        /\ \E i \in 1 .. Len(hlog[s]) : hlog[s][i].ev = "dispatch"
        /\ \E i \in 1 .. Len(hlog[t]) : EvAt(t, i, "snd", "AccDenied")
        /\ hpc[t] = "Closed" /\ hin[t] # << >>

(***************************************************************************)
(* Properties of the client's errors.                                      *)
(***************************************************************************)
\* the peer closed without a byte where a tag was awaited, or in the middle
\* of the payload it had begun
CutShort ==
    { MkFeed("none", << >>, TRUE),
      MkFeed("Error", U16(3) \o U64(5) \o << 101 >>, TRUE),
      MkFeed("Response", U64(4) \o << 7 >>, TRUE) }
ClosedWhileWaiting ==
    /\ Returned /\ last.rx0 = << >>
    /\ \/ last.fed = 1 /\ last.f1 \in CutShort
       \/ /\ last.op = "connect" /\ last.fed = 2 /\ LoginWritten
          /\ WellFormed(last.f1) /\ last.f1.tag = "Greet"
          /\ last.f2 = MkFeed("none", << >>, TRUE)

\* C11: when the peer closes the socket while a call waits for a tag or a
\* payload, the call fails with Error::Io.
C11_PeerCloseIsIo == ClosedWhileWaiting => last.res = "Io"

(***************************************************************************)
(* Properties of the listener.                                             *)
(***************************************************************************)
\* the sockets that incoming() has yielded as Ok
Accepted == { s \in 1 .. Len(incoming) : incoming[s] = "ok" }
\* the sockets moved into a spawned thread
Owned == { threads[i] : i \in 1 .. Len(threads) }
\* a step of the accept loop
ListenerStep == incoming' # incoming
\* the handler of s waits for bytes that are not there
BlockedOnRead(s) ==
    /\ hpc[s] \in { "AwaitLogin", "Serving" }
    /\ hin[s] = << >> /\ ~hclosed[s]

\* C12: every accepted socket is owned by exactly one spawned handler thread
\* and no socket by two; a step of the accept loop reads nothing from and
\* writes nothing to any socket; and the accept loop can take its next
\* connection whatever the handlers are waiting for.
C12_OneHandlerPerSocket ==
    /\ [](/\ Owned = Accepted
          /\ \A i, j \in 1 .. Len(threads) : threads[i] = threads[j] => i = j
          /\ \A s \in Sockets : (hpc[s] # "NotAccepted") <=> (s \in Owned)
          /\ Len(incoming) < MaxIncoming => ENABLED Accept)
    /\ [][ ListenerStep =>
             (hin' = hin /\ hout' = hout /\ hlog' = hlog /\ hclosed' = hclosed) ]_vars
\* a second connection was accepted and served while the handler of the first
\* waits for its client's Login
C12_Witness ==
    /\ Len(threads) = 2 /\ threads[1] # threads[2]
    /\ BlockedOnRead(threads[1])
    /\ hlog[threads[2]] # << >>

\* the handler of s ends in a failure in this step
Fails(s) ==
    /\ hpc[s] # "Closed" /\ hpc'[s] = "Closed"
    /\ \E i \in Len(hlog[s]) + 1 .. Len(hlog'[s]) : hlog'[s][i].ev = "fail"
HasFailed(s) == \E i \in 1 .. Len(hlog[s]) : hlog[s][i].ev = "fail"

\* C13: the step in which one handler fails changes nothing of any other
\* connection's handler nor of the accept loop, and after it the accept loop
\* can still take its next connection.
C13_FailureIsolated ==
    /\ [][ \A s \in Sockets : Fails(s) =>
             /\ \A t \in Sockets \ { s } :
                    /\ hpc'[t] = hpc[t] /\ hin'[t] = hin[t] /\ hout'[t] = hout[t]
                    /\ hcred'[t] = hcred[t] /\ hlog'[t] = hlog[t]
                    /\ hclosed'[t] = hclosed[t]
             /\ UNCHANGED <<incoming, threads, warned>> ]_vars
    /\ []((\E s \in Sockets : HasFailed(s)) /\ Len(incoming) < MaxIncoming
              => ENABLED Accept \/ ENABLED AcceptFail)
\* one handler has failed, another went on to serve its client
C13_Witness ==
    \E s, t \in Sockets :
        /\ s # t /\ HasFailed(s) /\ hpc[s] = "Closed"
        /\ hpc[t] = "Serving"
        /\ \E i \in 1 .. Len(hlog[t]) : hlog[t][i].ev = "dispatch"

(***************************************************************************)
(* Properties of the established Connection.                               *)
(***************************************************************************)
\* C14: on the Connection that connect returned, get_version and get_message
\* give the Greeting received in the handshake, get_username the username,
\* get_ip the address and get_port the port passed to connect; and no ping,
\* execute or quit, whatever its outcome, changes any of the five.
C14_AccessorsFixed ==
    /\ []((last.op = "connect" /\ last.res = "Ok") =>
             /\ Len(conn) = 1
             /\ \E g \in Greetings :
                    /\ IsPrefix(EncTag("Greet") \o EncGreeting(g), SetupStream)
                    /\ get_version(conn[1]) = g.protocol_version
                    /\ get_message(conn[1]) = g.message
             /\ get_username(conn[1]) = last.arg
             /\ get_ip(conn[1]) = last.addr
             /\ get_port(conn[1]) = last.port)
    /\ [][ (Len(conn) = 1 /\ Len(conn') = 1) =>
             /\ get_version(conn'[1]) = get_version(conn[1])
             /\ get_message(conn'[1]) = get_message(conn[1])
             /\ get_username(conn'[1]) = get_username(conn[1])
             /\ get_ip(conn'[1]) = get_ip(conn[1])
             /\ get_port(conn'[1]) = get_port(conn[1]) ]_vars
\* a Connection with a greeting of its own, after a failed and a good call
C14_Witness ==
    /\ Len(conn) = 1 /\ nOps = 2
    /\ get_message(conn[1]) = << 104, 105 >> /\ get_username(conn[1]) = << 97 >>
    /\ last.op \in Calls /\ last.res = "Ok"
    /\ \E i \in DOMAIN log : log[i].st = "err"

(***************************************************************************)
(* Properties of the client's reads and writes.                            *)
(***************************************************************************)
\* the tag that announces a payload type
Announces(ty) ==
    CASE ty = "Greeting" -> "Greet"
      [] ty = "ResultSet" -> "Response"
      [] ty = "ClientErrMsg" -> "Error"
PayloadReads == { i \in DOMAIN log : log[i].io = "rd" /\ log[i].ty # "PkgType" }

\* C15: every payload the client reads is a Greeting, a ResultSet or a
\* ClientErrMsg, and the read just before it is the read of the tag that
\* announces it; hence no payload read follows an Ok, AccGranted or AccDenied
\* tag.
C15_NoSpeculativeDecode ==
    \A i \in PayloadReads :
        /\ log[i].ty \in { "Greeting", "ResultSet", "ClientErrMsg" }
        /\ i > 1
        /\ IsRd(log[i - 1], "PkgType", Announces(log[i].ty))
\* an execute got the Ok tag in place of Response and read nothing behind
\* it; the next call read a ClientErrMsg behind the Error tag
C15_Witness ==
    /\ \E i \in DOMAIN log :
           /\ IsRd(log[i], "PkgType", "Ok") /\ i < Len(log)
           /\ IsWr(log[i - 2], "PkgType") /\ log[i - 1].v = "Query"
           /\ IsWr(log[i + 1], "PkgType")
    /\ \E i \in PayloadReads : log[i].ty = "Greeting"
    /\ \E i \in PayloadReads : log[i].ty = "ClientErrMsg"
    /\ last.res = "Server"

\* the stream the call read from began with the Greet tag and a whole
\* Greeting larger than the bound
BigGreetingRead ==
    /\ last.fed >= 1 /\ last.rx0 = << >>
    /\ last.f1 = MkFeed("Greet", EncGreeting([protocol_version |-> PROTOCOL_VERSION,
                                              message |-> BigStr]), FALSE)

\* C16: the control payloads are bounded by 1024 bytes wherever the client
\* writes or reads one: connect fails with Encode on a larger Login and with
\* Decode on a larger Greeting, execute fails with Encode on a larger Query
\* command, and a call that reads a larger Greeting behind a Greet tag fails
\* with Decode (only ResultSet and ClientErrMsg are read without a bound).
C16_ControlBound ==
    Returned =>
        /\ ( /\ last.op = "connect" /\ last.arglen > CtrlLimit
             /\ Len(last.ev) >= 3 /\ last.ev[3].st = "ok" )
           => (last.res = "Encode" /\ last.out = EncTag("Login"))
        /\ ( /\ last.op = "execute" /\ last.arglen > CtrlLimit
             /\ last.ev[1].st = "ok" )
           => last.res = "Encode"
        /\ BigGreetingRead => last.res = "Decode"

\* C17: a call that fails with Error::Encode because its command is larger
\* than the bound has written nothing to the socket.
C17_EncodeWritesNothing ==
    ( /\ last.op \in Calls /\ Returned
      /\ last.res = "Encode" /\ last.arglen > CtrlLimit
      /\ last.ev[1].st = "ok" )
    => last.out = << >>

(***************************************************************************)
(* Properties of the protocol version.                                     *)
(***************************************************************************)
\* C18: for every protocol_version v of 0..255 in the Greeting, a handshake
\* of Greet, that Greeting, the Login written and AccGranted makes connect
\* return a Connection, and get_version of it is v.
C18_VersionNotEnforced ==
    \A v \in Byte :
        ( /\ last.op = "connect" /\ LoginWritten
          /\ SetupStream = EncTag("Greet") \o EncGreeting(VersionGreeting(v))
                               \o EncTag("AccGranted") )
        => /\ last.res = "Ok" /\ Len(conn) = 1
           /\ get_version(conn[1]) = v
\* a Connection to a server whose version is the largest u8
C18_Witness ==
    /\ last.op = "connect" /\ last.res = "Ok" /\ Len(conn) = 1
    /\ get_version(conn[1]) = 255 /\ get_version(conn[1]) # PROTOCOL_VERSION
    /\ last.f1 = MkFeed("Greet", EncGreeting(VersionGreeting(255)), FALSE)

(***************************************************************************)
(* Properties of the client against a protocol-following handler.          *)
(***************************************************************************)
\* the client is inside a call, at a read
InCall == live.pc \in { "greet", "login", "waiting" }
\* ... and the bytes that read needs are not there
ClientWaits ==
    \/ /\ live.pc = "greet"
       /\ \A passwd \in LivePasswords : LiveConnectRes(passwd).out = << >>
    \/ live.pc = "login" /\ LiveConnectRes(live.passwd).res = "Blocked"
    \/ live.pc = "waiting" /\ LiveCallRes.res = "Blocked"
\* the handler is at a read whose bytes are not there
HandlerWaits ==
    \/ hpc[1] = "AwaitLogin" /\ ~HandlerLoginReady
    \/ hpc[1] = "Serving" /\ ~HandlerCommandReady

\* C19: against a handler that follows the protocol, under fair scheduling,
\* the client and the handler never both wait on a read, and every connect,
\* ping, execute and quit call returns.
C19_CallsReturn ==
    /\ [](~(ClientWaits /\ HandlerWaits))
    /\ (InCall ~> ~InCall)

(***************************************************************************)
(* Properties of the listener's failed accepts.                            *)
(***************************************************************************)
FailedAccepts == { i \in 1 .. Len(incoming) : incoming[i] = "err" }
FailedAccept == incoming' = Append(incoming, "err")

\* C20: the step of a failed accept spawns no thread, starts no handler and
\* logs one warning; every failed accept is logged, a failed accept has no
\* handler, every successful accept, also after a failed one, has its handler
\* thread, and after a failed accept the loop can take its next connection.
C20_FailedAcceptGoesOn ==
    /\ [][ FailedAccept =>
             /\ threads' = threads /\ hpc' = hpc
             /\ warned' = warned + 1 ]_vars
    /\ [](/\ warned = Cardinality(FailedAccepts)
          /\ \A i \in FailedAccepts : hpc[i] = "NotAccepted" /\ hlog[i] = << >>
          /\ \A i \in 1 .. Len(incoming) :
                 incoming[i] = "ok" =>
                     /\ hpc[i] # "NotAccepted"
                     /\ \E k \in 1 .. Len(threads) : threads[k] = i
          /\ (FailedAccepts # { } /\ Len(incoming) < MaxIncoming) => ENABLED Accept)
\* a failed accept, then a successful one whose handler has greeted
C20_Witness ==
    /\ incoming = << "err", "ok" >>
    /\ threads = << 2 >> /\ warned = 1
    /\ hpc[2] = "AwaitLogin" /\ hlog[2] # << >>

(***************************************************************************)
(* The parser of src/src/parse/parser.rs.  The lexer (super::lex) hands    *)
(* the parser a sequence of tokens with their spans; a query is given here *)
(* as that sequence of tokens, the span of a token being its position.     *)
(***************************************************************************)
MaxTokens == 3

\* Token::Word(s), Token::Whitespace, and one token that is neither
Word(s) == [tok |-> "Word", s |-> s]
Whitespace == [tok |-> "Whitespace", s |-> ""]
Semi == [tok |-> "Semi", s |-> ""]
\* Option<TokenSpan>::None
None == [tok |-> "None", s |-> "", span |-> [lo |-> 0, hi |-> 0]]
\* what the lexer iterator yields for a sequence of tokens
TokenSpans(toks) ==
    [ i \in 1 .. Len(toks) |->
        [tok |-> toks[i].tok, s |-> toks[i].s, span |-> [lo |-> i, hi |-> i]] ]

\* results of the parser's functions: the value or the error, and the parser
POk(v, p) == [ok |-> TRUE, v |-> v, p |-> p]
PErr(kind, span, p) == [ok |-> FALSE, v |-> [kind |-> kind, span |-> span], p |-> p]
\* try!(r): the error returns, the value goes on
Try(r, K(_)) == IF r.ok THEN K(r) ELSE r

\* sets the next token: last <- curr <- peek <- lexiter.next()
lexer_next(p) ==
    [ lexiter |-> IF p.lexiter = << >> THEN << >> ELSE Tail(p.lexiter),
      last |-> p.curr,
      curr |-> p.peek,
      peek |-> IF p.lexiter = << >> THEN None ELSE Head(p.lexiter) ]

\* Parser::create: a parser on the query, two tokens read ahead
create(query) ==
    lexer_next(lexer_next(
        [lexiter |-> TokenSpans(query), last |-> None, curr |-> None, peek |-> None]))

\* the words expect_keyword knows as keywords
KeywordOf ==
    [ create |-> "Create", drop |-> "Drop", table |-> "Table", view |-> "View",
      alter |-> "Alter", update |-> "Update", select |-> "Select",
      insert |-> "Insert", delete |-> "Delete", modify |-> "Modify",
      add |-> "Add", column |-> "Column" ]

\* the current token is a word, a keyword, and one of the expected keywords
expect_keyword(p, expected) ==
    IF p.curr.tok = "None" THEN PErr("EofError", None.span, p)
    ELSE IF p.curr.tok # "Word" THEN PErr("NotAKeyword", p.curr.span, p)
    ELSE IF p.curr.s \notin DOMAIN KeywordOf THEN PErr("NotAKeyword", p.curr.span, p)
    ELSE IF KeywordOf[p.curr.s] \notin expected THEN PErr("WrongKeyword", p.curr.span, p)
    ELSE POk(KeywordOf[p.curr.s], p)

\* the current token is a word: its text
expect_word(p) ==
    IF p.curr.tok = "None" THEN PErr("EofError", None.span, p)
    ELSE IF p.curr.tok # "Word" THEN PErr("NotAWord", p.curr.span, p)
    ELSE POk(p.curr.s, p)

\* the current token is one of the expected tokens
expect_token(p, expected) ==
    IF p.curr.tok = "None" THEN PErr("EofError", None.span, p)
    ELSE IF p.curr.tok \notin expected THEN PErr("WrongToken", p.curr.span, p)
    ELSE POk(p.curr.tok, p)

\* the next token is whitespace, and the parser moves to the token after it
skip_whitespace(p) ==
    Try(expect_token(lexer_next(p), { "Whitespace" }),
        LAMBDA r : POk("unit", lexer_next(r.p)))

\* a column: whitespace, its name, whitespace; every column is an Int
parse_column_info(p) ==
    Try(skip_whitespace(p), LAMBDA r1 :
    Try(expect_word(r1.p), LAMBDA r2 :
    Try(skip_whitespace(r2.p), LAMBDA r3 :
        POk([cid |-> r2.v, datatype |-> "Int"], r3.p))))

\* the operation of an alter table statement
parse_alter_op(p) ==
    Try(skip_whitespace(p), LAMBDA r1 :
    Try(expect_keyword(r1.p, { "Add", "Drop", "Modify" }), LAMBDA r2 :
        CASE r2.v = "Add" ->
                 Try(parse_column_info(r2.p), LAMBDA r3 :
                     POk([op |-> "Add", v |-> r3.v], r3.p))
          [] r2.v = "Drop" ->
                 Try(expect_word(r2.p), LAMBDA r3 :
                     POk([op |-> "Drop", v |-> r3.v], r3.p))
          [] r2.v = "Modify" ->
                 Try(parse_column_info(r2.p), LAMBDA r3 :
                     POk([op |-> "Modify", v |-> r3.v], r3.p))))

\* the table of an alter table statement and its operation
parse_alter_stmt(p) ==
    Try(skip_whitespace(p), LAMBDA r1 :
    Try(expect_word(r1.p), LAMBDA r2 :
    Try(parse_alter_op(r2.p), LAMBDA r3 :
        POk([tid |-> r2.v, op |-> r3.v], r3.p))))

\* what follows the alter keyword
parse_alt_stmt(p) ==
    Try(skip_whitespace(p), LAMBDA r1 :
    Try(expect_keyword(r1.p, { "Table" }), LAMBDA r2 :
    Try(parse_alter_stmt(r2.p), LAMBDA r3 :
        POk([stmt |-> "Alter", what |-> "Table", v |-> r3.v], r3.p))))

\* what follows the drop keyword
parse_drop_stmt(p) ==
    Try(skip_whitespace(p), LAMBDA r1 :
    Try(expect_keyword(r1.p, { "Table" }), LAMBDA r2 :
    Try(skip_whitespace(r2.p), LAMBDA r3 :
    Try(expect_word(r3.p), LAMBDA r4 :
        POk([stmt |-> "Drop", what |-> "Table", v |-> r4.v], r4.p)))))

\* what follows the create keyword: the result of the first skip_whitespace
\* is dropped, and the statement ends in an error either way
parse_create_stmt(p) ==
    LET p1 == skip_whitespace(p).p
    IN  Try(expect_keyword(p1, { "Table" }), LAMBDA r2 :
        Try(skip_whitespace(r2.p), LAMBDA r3 :
        Try(expect_word(r3.p), LAMBDA r4 :
            [ok |-> FALSE, v |-> [kind |-> "DebugError", s |-> r4.v], p |-> r4.p])))

\* Parser::parse: leading whitespace is skipped, the first keyword chooses
\* the statement, and a query with no token is the empty query
parse_with(p) ==
    LET p1 == IF expect_token(p, { "Whitespace" }).ok THEN lexer_next(p) ELSE p
        kw == expect_keyword(p1, { "Create", "Drop", "Alter" })
    IN  IF ~kw.ok
        THEN IF kw.v.kind = "EofError"
             THEN PErr("EmptyQueryError", None.span, p1)
             ELSE kw
        ELSE CASE kw.v = "Create" -> parse_create_stmt(p1)
               [] kw.v = "Drop" -> parse_drop_stmt(p1)
               [] kw.v = "Alter" -> parse_alt_stmt(p1)

\* Result<Query, ParseError> of parsing a query
parse(query) ==
    LET r == parse_with(create(query))
    IN  [ok |-> r.ok, v |-> r.v]

\* the queries handed to the parser
Names == { "t", "c", "drop" }
Alphabet == { Word(w) : w \in { "alter", "drop", "table", "t" } } \cup { Whitespace, Semi }
ShortQueries == UNION { [1 .. n -> Alphabet] : n \in 0 .. MaxTokens }
\* <keyword> <what> <name>
Statement(kw, what, name) ==
    << Word(kw), Whitespace, Word(what), Whitespace, Word(name) >>
\* alter table T <op> C
AlterQuery(T, op, C) ==
    Statement("alter", "table", T) \o << Whitespace, Word(op), Whitespace, Word(C) >>
Tails == { << >>, << Whitespace >>, << Whitespace, Word("c") >>, << Semi >> }
ParserQueries ==
    ShortQueries
    \cup { Statement(kw, what, name) \o tl :
             kw \in { "alter", "drop", "create" }, what \in { "table", "view" },
             name \in Names, tl \in Tails }
    \cup { << Whitespace >> \o AlterQuery(T, op, C) \o tl :
             T \in Names, op \in { "add", "drop", "modify", "column" },
             C \in Names, tl \in Tails }
    \cup { AlterQuery(T, op, C) \o tl :
             T \in Names, op \in { "add", "drop", "modify", "column" },
             C \in Names, tl \in Tails }

\* a parser is created on a query and parses it
Parse ==
    /\ ~pres.parsed
    /\ \E query \in ParserQueries :
           pres' = [toks |-> query, parsed |-> TRUE, res |-> parse(query)]
    /\ UNCHANGED <<sock, conn, rx, tx, peerClosed, log, last, nOps, live, srvVars>>

NextParse == Parse
SpecParse == Init /\ [][NextParse]_vars

\* C21: for the tokens alter, whitespace, table, whitespace, T, whitespace,
\* drop, whitespace, C, with T and C words, the parser returns the alter
\* table statement of table T whose operation is Drop(C).
C21_AlterDropColumn ==
    \A T, C \in Names :
        (pres.parsed /\ pres.toks = AlterQuery(T, "drop", C)) =>
            /\ pres.res.ok
            /\ pres.res.v = [stmt |-> "Alter", what |-> "Table",
                             v |-> [tid |-> T, op |-> [op |-> "Drop", v |-> C]]]

=============================================================================
